---- MODULE Spec2Model ----
(***************************************************************************)
(* Model of src/app.js: an Express application exposing CRUD routes over   *)
(* one Sequelize model, Task, stored in the SQLite table "tasks".          *)
(*                                                                         *)
(* Values.  A JavaScript value that may be undefined/null, and an SQL      *)
(* column that may be NULL, is an option: None (undefined, null, NULL) or  *)
(* Some(v).  A title is a sequence of one-character strings, so that       *)
(* String.prototype.toLowerCase and the weekday check are computed, not    *)
(* assumed.  The timestamps createdAt/updatedAt are not modelled.          *)
(*                                                                         *)
(* Handlers.  Every await on the database is a point at which other        *)
(* requests may run.  A handler with one query is one action; PUT and      *)
(* DELETE run two queries (findByPk, then UPDATE / DELETE) and are two     *)
(* actions each, with the request parked in `pending` in between.  Two     *)
(* parked requests that agree on route, id, task and body are one element  *)
(* of `pending`: they act alike.                                           *)
(***************************************************************************)
EXTENDS Integers, Sequences, FiniteSets, TLC

\* ------------------------------------------------------------------ bounds
MaxTasks == 2      \* rows ever inserted (the seed row included)
MaxPending == 2    \* PUT/DELETE requests parked between their two queries

\* ------------------------------------------------------------------ values
None == <<>>
Some(v) == <<v>>

Upper == <<"A","B","C","D","E","F","G","H","I","J","K","L","M",
           "N","O","P","Q","R","S","T","U","V","W","X","Y","Z">>
Lower == <<"a","b","c","d","e","f","g","h","i","j","k","l","m",
           "n","o","p","q","r","s","t","u","v","w","x","y","z">>

\* The lower-case letter of every upper-case letter.
LowerOf == [c \in {Upper[k] : k \in 1..26} |-> Lower[CHOOSE k \in 1..26 : Upper[k] = c]]

toLowerCase(s) ==
    [i \in 1..Len(s) |-> IF s[i] \in DOMAIN LowerOf THEN LowerOf[s[i]] ELSE s[i]]

validDays ==
    << <<"m","o","n","d","a","y">>,
       <<"t","u","e","s","d","a","y">>,
       <<"w","e","d","n","e","s","d","a","y">>,
       <<"t","h","u","r","s","d","a","y">>,
       <<"f","r","i","d","a","y">>,
       <<"s","a","t","u","r","d","a","y">>,
       <<"s","u","n","d","a","y">> >>

includes(arr, x) == \E i \in 1..Len(arr) : arr[i] = x

\* TRUE when the custom validator returns without throwing.
isValidDayAlways(value) == TRUE

isValidDay(value) == includes(validDays, toLowerCase(value))

\* Titles and query terms that requests carry.
Monday == <<"M","o","n","d","a","y">>
FRIDAY == <<"F","R","I","D","A","Y">>
shop == <<"s","h","o","p">>
EmptyString == <<>>

\* Due dates that requests carry, and what validator.js and DATEONLY make of
\* them: isISO8601 accepts a calendar date and a full timestamp; toDate()
\* followed by the DATEONLY setter keeps the calendar date (server in UTC).
isISO8601(s) == s \in {"2024-01-30", "2024-03-15", "2024-03-15T10:30:00Z"}

DateOnly(s) == IF s = "2024-03-15T10:30:00Z" THEN "2024-03-15" ELSE s

isDate(s) == s \in {"2024-01-30", "2024-03-15"}

\* ---------------------------------------------------------------- requests
Fields == {"title", "description", "due_date", "completed"}

EmptyBody == [title |-> None, description |-> None, due_date |-> None, completed |-> None]

Body(t, d, dd, c) == [title |-> t, description |-> d, due_date |-> dd, completed |-> c]

\* Request bodies of POST /tasks.
PostBodies ==
    { Body(Some(FRIDAY), Some("d1"), Some("2024-03-15T10:30:00Z"), None),
      Body(Some(shop), None, Some("2024-03-15"), None),
      Body(Some(Monday), None, None, None),
      Body(None, None, Some("2024-01-30"), None) }

\* Request bodies of PUT /tasks/:task_id.
PutBodies ==
    { Body(Some(FRIDAY), Some("d1"), Some("2024-03-15T10:30:00Z"), None),
      Body(None, None, None, Some(TRUE)),
      Body(Some(shop), None, None, None),
      Body(Some(EmptyString), None, None, None),
      Body(None, None, Some("tomorrow"), None) }

\* ?title= of GET /task/search
Terms == {None, Some(<<"D","A","Y">>)}

\* :task_id of a request.  The ids above those handed out so far are the ids
\* of tasks that never existed.
ParamIds == 1..MaxTasks

VARIABLES
    store,     \* table "tasks": the rows in insertion order
    nextId,    \* the next value of Sequelize.UUIDV4
    pending,   \* requests between their two queries
    last,      \* the request answered last and its response
    issued,    \* history: task_ids given to the tasks created, in order
    deleted    \* history: task_ids whose DELETE was answered 204

vars == <<store, nextId, pending, last, issued, deleted>>

\* A parked request: the route, :task_id, the task in memory (kept for PUT,
\* which answers with it), the request body, and whether instance.set changed
\* the task in memory (instance.save issues no UPDATE when nothing changed).
Parked(op, id, task, req, changed) ==
    [op |-> op, id |-> id, task |-> task, req |-> req, changed |-> changed]

\* express-validator ------------------------------------------------------
notEmptyTitle(t) == t # None /\ t[1] # EmptyString

notEmptyDate(d) == d # None /\ d[1] # ""

PostValidation(b) ==
    (IF notEmptyTitle(b.title) THEN {} ELSE {"title"})
    \cup (IF notEmptyDate(b.due_date) /\ isISO8601(b.due_date[1]) THEN {} ELSE {"due_date"})

PutValidation(b) ==
    (IF b.title = None \/ notEmptyTitle(b.title) THEN {} ELSE {"title"})
    \cup (IF b.due_date = None \/ isISO8601(b.due_date[1]) THEN {} ELSE {"due_date"})

\* Sequelize --------------------------------------------------------------
UUIDV4Reuse(n, rows) ==
    CHOOSE k \in 1..(MaxTasks + 1) :
        /\ \A i \in 1..Len(rows) : rows[i].task_id # k
        /\ \A j \in 1..(k - 1) : \E i \in 1..Len(rows) : rows[i].task_id = j

\* A version-4 UUID is taken to be fresh: the n-th one generated is n.
UUIDV4(n, rows) == n

findByPk(rows, id) ==
    IF \E i \in 1..Len(rows) : rows[i].task_id = id
    THEN Some(rows[CHOOSE i \in 1..Len(rows) : rows[i].task_id = id])
    ELSE None

\* Model.build: defaults for the attributes left undefined, DATEONLY setter.
buildNoDefault(values, id) ==
    [task_id |-> id,
     title |-> values.title,
     description |-> values.description,
     due_date |-> IF values.due_date = None THEN None ELSE Some(DateOnly(values.due_date[1])),
     completed |-> values.completed]

build(values, id) ==
    [task_id |-> id,
     title |-> values.title,
     description |-> values.description,
     due_date |-> IF values.due_date = None THEN None ELSE Some(DateOnly(values.due_date[1])),
     completed |-> IF values.completed = None THEN Some(FALSE) ELSE values.completed]

\* instance.validate over the attributes in `attrs`: allowNull: false,
\* isValidDay and isDate.
validate(inst, attrs) ==
    (IF "title" \in attrs /\ (inst.title = None \/ ~isValidDay(inst.title[1]))
        THEN {"title"} ELSE {})
    \cup (IF "due_date" \in attrs /\ (inst.due_date = None \/ ~isDate(inst.due_date[1]))
        THEN {"due_date"} ELSE {})

\* INSERT INTO tasks: a column left out takes the DEFAULT of its definition.
insert(rows, inst) ==
    Append(rows, [inst EXCEPT !.completed = IF @ = None THEN Some(FALSE) ELSE @])

\* instance.update(values): the keys whose value is undefined are dropped.
omitUndefinedNot(values) == Fields

omitUndefined(values) == {f \in Fields : values[f] # None}

\* instance.set(values) for the keys kept.
set(inst, values, keys) ==
    [task_id |-> inst.task_id,
     title |-> IF "title" \in keys THEN values.title ELSE inst.title,
     description |-> IF "description" \in keys THEN values.description ELSE inst.description,
     due_date |-> IF "due_date" \in keys
                  THEN (IF values.due_date = None THEN None ELSE Some(DateOnly(values.due_date[1])))
                  ELSE inst.due_date,
     completed |-> IF "completed" \in keys THEN values.completed ELSE inst.completed]

\* UPDATE tasks SET <keys> WHERE task_id = id: no row, no effect.
updateUpsert(rows, inst, values, keys) ==
    IF \E i \in 1..Len(rows) : rows[i].task_id = inst.task_id
    THEN [i \in 1..Len(rows) |->
            IF rows[i].task_id = inst.task_id THEN set(rows[i], values, keys) ELSE rows[i]]
    ELSE Append(rows, set(inst, values, keys))

update(rows, inst, values, keys) ==
    [i \in 1..Len(rows) |->
        IF rows[i].task_id = inst.task_id THEN set(rows[i], values, keys) ELSE rows[i]]

RECURSIVE destroy(_, _)
\* DELETE FROM tasks WHERE task_id = id
destroy(rows, id) ==
    IF rows = <<>> THEN <<>>
    ELSE IF Head(rows).task_id = id THEN destroy(Tail(rows), id)
    ELSE <<Head(rows)>> \o destroy(Tail(rows), id)

\* responses ---------------------------------------------------------------
\* touched: the handler ran a query; found: its findByPk returned a row.
Resp(op, id, req, status, body, touched, found) ==
    [op |-> op, id |-> id, req |-> req, status |-> status, body |-> body,
     touched |-> touched, found |-> found]

SeedTask ==
    build(Body(Some(Monday), Some("Example task for Monday"), Some("2024-01-30"), None), 1)

Init ==
    /\ store = insert(<<>>, SeedTask)
    /\ nextId = 2
    /\ pending = {}
    /\ last = Resp("listen", 0, EmptyBody, 0, <<>>, FALSE, FALSE)
    /\ issued = <<SeedTask.task_id>>
    /\ deleted = {}

\* GET /tasks
GetTasks ==
    /\ last' = Resp("GET /tasks", 0, EmptyBody, 200, store, TRUE, FALSE)
    /\ UNCHANGED <<store, nextId, pending, issued, deleted>>

\* GET /tasks/:task_id
GetTaskById(id) ==
    /\ LET task == findByPk(store, id) IN
         last' = IF task # None
                 THEN Resp("GET /tasks/:task_id", id, EmptyBody, 200, task, TRUE, TRUE)
                 ELSE Resp("GET /tasks/:task_id", id, EmptyBody, 404, <<>>, TRUE, FALSE)
    /\ UNCHANGED <<store, nextId, pending, issued, deleted>>

Attributes == Fields

\* POST /tasks, with the INSERT issued whatever the validators say.
PostTasksInsertFirst(b) ==
    /\ nextId <= MaxTasks
    /\ LET id == UUIDV4(nextId, store)
           newTask == build(b, id)
           ok == PostValidation(b) = {} /\ validate(newTask, Attributes) = {}
       IN /\ store' = insert(store, newTask)
          /\ nextId' = nextId + 1
          /\ last' = IF ok THEN Resp("POST /tasks", 0, b, 201, Some(newTask), TRUE, FALSE)
                     ELSE Resp("POST /tasks", 0, b, 400, <<>>, TRUE, FALSE)
          /\ issued' = IF ok THEN Append(issued, id) ELSE issued
    /\ UNCHANGED <<pending, deleted>>

\* POST /tasks
PostTasks(b) ==
    LET errors == PostValidation(b)
        id == UUIDV4(nextId, store)
        newTask == build(b, id)
    IN IF errors # {}
       THEN /\ last' = Resp("POST /tasks", 0, b, 400, <<>>, FALSE, FALSE)
            /\ UNCHANGED <<store, nextId, pending, issued, deleted>>
       ELSE IF validate(newTask, Attributes) # {}
       THEN \* SequelizeValidationError, thrown before the INSERT
            /\ last' = Resp("POST /tasks", 0, b, 400, <<>>, FALSE, FALSE)
            /\ UNCHANGED <<store, nextId, pending, issued, deleted>>
       ELSE /\ nextId <= MaxTasks
            /\ nextId' = nextId + 1
            /\ IF findByPk(store, id) # None
               THEN \* primary key violation: not a SequelizeValidationError
                    /\ last' = Resp("POST /tasks", 0, b, 500, <<>>, TRUE, FALSE)
                    /\ UNCHANGED <<store, issued>>
               ELSE /\ store' = insert(store, newTask)
                    /\ last' = Resp("POST /tasks", 0, b, 201, Some(newTask), TRUE, FALSE)
                    /\ issued' = Append(issued, id)
            /\ UNCHANGED <<pending, deleted>>

\* PUT /tasks/:task_id that creates the row it does not find.
PutTasksFindUpsert(id, b) ==
    LET found == findByPk(store, id)
        keys == omitUndefined(b)
    IN IF PutValidation(b) # {}
       THEN /\ last' = Resp("PUT /tasks/:task_id", id, b, 400, <<>>, FALSE, FALSE)
            /\ UNCHANGED <<store, nextId, pending, issued, deleted>>
       ELSE IF found = None
       THEN /\ store' = insert(store, build(b, id))
            /\ last' = Resp("PUT /tasks/:task_id", id, b, 404, <<>>, TRUE, FALSE)
            /\ UNCHANGED <<nextId, pending, issued, deleted>>
       ELSE IF validate(set(found[1], b, keys), keys) # {}
       THEN /\ last' = Resp("PUT /tasks/:task_id", id, b, 400, <<>>, TRUE, TRUE)
            /\ UNCHANGED <<store, nextId, pending, issued, deleted>>
       ELSE /\ Cardinality(pending) < MaxPending
            /\ pending' = pending \cup {Parked("put", id, Some(set(found[1], b, keys)), b,
                                             set(found[1], b, keys) # found[1])}
            /\ UNCHANGED <<store, nextId, last, issued, deleted>>

\* PUT /tasks/:task_id that looks the task up before it checks the body.
PutTasksFindFirst(id, b) ==
    LET found == findByPk(store, id)
        keys == omitUndefined(b)
    IN IF found = None
       THEN /\ last' = Resp("PUT /tasks/:task_id", id, b, 404, <<>>, TRUE, FALSE)
            /\ UNCHANGED <<store, nextId, pending, issued, deleted>>
       ELSE IF PutValidation(b) # {} \/ validate(set(found[1], b, keys), keys) # {}
       THEN /\ last' = Resp("PUT /tasks/:task_id", id, b, 400, <<>>, TRUE, TRUE)
            /\ UNCHANGED <<store, nextId, pending, issued, deleted>>
       ELSE /\ Cardinality(pending) < MaxPending
            /\ pending' = pending \cup {Parked("put", id, Some(set(found[1], b, keys)), b,
                                             set(found[1], b, keys) # found[1])}
            /\ UNCHANGED <<store, nextId, last, issued, deleted>>

\* PUT /tasks/:task_id, from the validators to the point where task.update
\* issues its UPDATE: findByPk is the only query of this part; instance.set
\* and instance.validate work on the task in memory.
PutTasksFind(id, b) ==
    LET found == findByPk(store, id)
        keys == omitUndefined(b)
    IN IF PutValidation(b) # {}
       THEN /\ last' = Resp("PUT /tasks/:task_id", id, b, 400, <<>>, FALSE, FALSE)
            /\ UNCHANGED <<store, nextId, pending, issued, deleted>>
       ELSE IF found = None
       THEN /\ last' = Resp("PUT /tasks/:task_id", id, b, 404, <<>>, TRUE, FALSE)
            /\ UNCHANGED <<store, nextId, pending, issued, deleted>>
       ELSE IF validate(set(found[1], b, keys), keys) # {}
       THEN \* SequelizeValidationError, thrown before the UPDATE
            /\ last' = Resp("PUT /tasks/:task_id", id, b, 400, <<>>, TRUE, TRUE)
            /\ UNCHANGED <<store, nextId, pending, issued, deleted>>
       ELSE /\ Cardinality(pending) < MaxPending
            /\ pending' = pending \cup {Parked("put", id, Some(set(found[1], b, keys)), b,
                                             set(found[1], b, keys) # found[1])}
            /\ UNCHANGED <<store, nextId, last, issued, deleted>>

\* PUT /tasks/:task_id, from the UPDATE to the response
PutTasksSave(p) ==
    /\ p.op = "put"
    /\ store' = IF p.changed THEN update(store, p.task[1], p.req, omitUndefined(p.req))
                 ELSE store
    /\ last' = Resp("PUT /tasks/:task_id", p.id, p.req, 200, p.task, TRUE, TRUE)
    /\ pending' = pending \ {p}
    /\ UNCHANGED <<nextId, issued, deleted>>

\* DELETE /tasks/:task_id that answers 204 when there is nothing to delete.
DeleteTasksFindSilent(id) ==
    /\ LET task == findByPk(store, id) IN
       IF task = None
       THEN /\ last' = Resp("DELETE /tasks/:task_id", id, EmptyBody, 204, <<>>, TRUE, FALSE)
            /\ UNCHANGED <<store, nextId, pending, issued, deleted>>
       ELSE /\ Cardinality(pending) < MaxPending
            /\ pending' = pending \cup {Parked("delete", id, None, EmptyBody, TRUE)}
            /\ UNCHANGED <<store, nextId, last, issued, deleted>>

\* DELETE /tasks/:task_id, up to the result of findByPk
DeleteTasksFind(id) ==
    /\ LET task == findByPk(store, id) IN
       IF task = None
       THEN /\ last' = Resp("DELETE /tasks/:task_id", id, EmptyBody, 404, <<>>, TRUE, FALSE)
            /\ UNCHANGED <<store, nextId, pending, issued, deleted>>
       ELSE /\ Cardinality(pending) < MaxPending
            /\ pending' = pending \cup {Parked("delete", id, None, EmptyBody, TRUE)}
            /\ UNCHANGED <<store, nextId, last, issued, deleted>>

\* DELETE /tasks/:task_id, from task.destroy to the response
DeleteTasksDestroy(p) ==
    /\ p.op = "delete"
    /\ store' = destroy(store, p.id)
    /\ last' = Resp("DELETE /tasks/:task_id", p.id, EmptyBody, 204, <<>>, TRUE, TRUE)
    /\ deleted' = deleted \cup {p.id}
    /\ pending' = pending \ {p}
    /\ UNCHANGED <<nextId, issued>>

\* GET /task/search?title=term: no route of the application has this path
\* ('/tasks/:task_id' starts with /tasks), so Express answers 404 itself.
GetTaskSearch(term) ==
    /\ last' = Resp("GET /task/search", 0, [EmptyBody EXCEPT !.title = term], 404, <<>>, FALSE, FALSE)
    /\ UNCHANGED <<store, nextId, pending, issued, deleted>>

Next ==
    \/ GetTasks
    \/ \E id \in ParamIds : GetTaskById(id)
    \/ \E b \in PostBodies : PostTasks(b)
    \/ \E id \in ParamIds, b \in PutBodies : PutTasksFind(id, b)
    \/ \E p \in pending : PutTasksSave(p)
    \/ \E id \in ParamIds : DeleteTasksFind(id)
    \/ \E p \in pending : DeleteTasksDestroy(p)
    \/ \E term \in Terms : GetTaskSearch(term)

Spec == Init /\ [][Next]_vars

TypeOK ==
    /\ nextId \in 1..(MaxTasks + 1)
    /\ Len(store) <= MaxTasks
    /\ Cardinality(pending) <= MaxPending
    /\ \A p \in pending : p.op \in {"put", "delete"}

\* ------------------------------------------------------------------ claims
TaskIds(rows) == {rows[i].task_id : i \in 1..Len(rows)}

WeekdayNames == {validDays[i] : i \in 1..Len(validDays)}

IsWeekday(t) == toLowerCase(t) \in WeekdayNames

LacksField(b) == b.title = None \/ b.due_date = None

PutRequestOk(b) ==
    /\ b.title = None \/ b.title[1] # EmptyString
    /\ b.due_date = None \/ isISO8601(b.due_date[1])

PostRequestOk(b) ==
    /\ b.title # None /\ b.title[1] # EmptyString
    /\ b.due_date # None /\ isISO8601(b.due_date[1])

NotAWeekday(b) == b.title # None /\ b.title[1] # EmptyString /\ ~IsWeekday(b.title[1])

Stored(f, v) == IF f = "due_date" THEN Some(DateOnly(v[1])) ELSE v

\* C1 as claimed: a DELETE whose task_id is not in the store is answered 204.
C1_DeleteUnknownIs204 ==
    (last.op = "DELETE /tasks/:task_id" /\ ~last.found) => last.status = 204

\* C1, amended: a DELETE whose task_id is not in the store is answered 404 and
\* a DELETE whose task_id is in the store is answered 204; neither response
\* carries a task.
C1_DeleteUnknownIs404 ==
    last.op = "DELETE /tasks/:task_id" =>
        /\ last.status = (IF last.found THEN 204 ELSE 404)
        /\ last.body = <<>>

C1_Witness ==
    /\ last.op = "DELETE /tasks/:task_id"
    /\ ~last.found
    /\ last.id \in deleted

\* C2: once a DELETE of an id was answered 204, the id is in no row of the
\* store, a GET of the id is answered 404 and GET /tasks does not list it,
\* also when a PUT that found the task before the DELETE writes after it.
C2_DeletedStaysDeleted ==
    \A id \in deleted :
        /\ id \notin TaskIds(store)
        /\ (last.op = "GET /tasks/:task_id" /\ last.id = id) => last.status = 404
        /\ last.op = "GET /tasks" => id \notin TaskIds(last.body)

C2_Witness ==
    /\ last.op = "PUT /tasks/:task_id"
    /\ last.status = 200
    /\ last.id \in deleted

\* C3: a POST /tasks whose body lacks title or due_date is answered 400 and
\* leaves the rows of the store as they were.
C3_MissingFieldNoInsert ==
    [][(last'.op = "POST /tasks" /\ LacksField(last'.req))
        => (last'.status = 400 /\ store' = store)]_vars

C3_Witness ==
    /\ last.op = "POST /tasks"
    /\ LacksField(last.req)
    /\ last.status = 400
    /\ Len(store) > 0

\* C4: a PUT with a body the request validators accept, on a task_id that is
\* not in the store, is answered 404, leaves the rows of the store as they
\* were and leaves the store without a row of that id.
C4_PutUnknownIs404 ==
    [][(last'.op = "PUT /tasks/:task_id" /\ PutRequestOk(last'.req) /\ ~last'.found)
        => (last'.status = 404 /\ store' = store /\ last'.id \notin TaskIds(store'))]_vars

C4_Witness ==
    /\ last.op = "PUT /tasks/:task_id"
    /\ PutRequestOk(last.req)
    /\ ~last.found
    /\ last.status = 404

\* C5: the task_ids given out are non-empty and pairwise different, the ids of
\* deleted tasks included; no two rows share a task_id; a PUT leaves the
\* task_id of every row as it was.
C5_IdsUniqueForever ==
    /\ [](/\ \A i \in 1..Len(issued) : issued[i] >= 1
          /\ \A i, j \in 1..Len(issued) : issued[i] = issued[j] => i = j
          /\ \A i, j \in 1..Len(store) : store[i].task_id = store[j].task_id => i = j
          /\ (last.op = "POST /tasks" /\ last.status = 201)
                => last.body[1].task_id = issued[Len(issued)])
    /\ [][last'.op = "PUT /tasks/:task_id"
            => [i \in 1..Len(store') |-> store'[i].task_id]
                 = [i \in 1..Len(store) |-> store[i].task_id]]_vars

C5_Witness ==
    /\ last.op = "POST /tasks"
    /\ last.status = 201
    /\ deleted # {}

Row(rows, id) == rows[CHOOSE i \in 1..Len(rows) : rows[i].task_id = id]

contains(s, t) == \E i \in 0..(Len(s) - Len(t)) : SubSeq(s, i + 1, i + Len(t)) = t

Matches(row, term) == contains(toLowerCase(row.title[1]), toLowerCase(term))

\* C7: GET /task/search?title=term is answered 200 with the rows whose title
\* contains term, letter case ignored, and 400 when title is missing.
C7_SearchContract ==
    last.op = "GET /task/search" =>
        IF last.req.title = None
        THEN last.status = 400
        ELSE /\ last.status = 200
             /\ last.body = SelectSeq(store, LAMBDA row : Matches(row, last.req.title[1]))

C9_InvalidRequestNoQuery ==
    [][(\/ last'.op = "POST /tasks" /\ ~PostRequestOk(last'.req)
        \/ last'.op = "PUT /tasks/:task_id" /\ ~PutRequestOk(last'.req))
        => (last'.status = 400 /\ ~last'.touched /\ store' = store)]_vars

C9_Witness ==
    /\ last.op = "PUT /tasks/:task_id"
    /\ ~PutRequestOk(last.req)
    /\ last.id \notin TaskIds(store)
    /\ last.status = 400

\* C10 as claimed: a POST or PUT whose title is non-empty and not a weekday
\* name is answered 400.
C10_NonWeekdayIs400 ==
    (last.op \in {"POST /tasks", "PUT /tasks/:task_id"} /\ NotAWeekday(last.req))
        => last.status = 400

\* C10, amended: a POST or PUT whose title is non-empty and not a weekday name
\* is answered 400, except that a PUT on a task_id that is not in the store is
\* answered 404; no step that answers such a request changes the rows of the
\* store, and the title of every row is a weekday name.
C10_NonWeekdayRejected ==
    /\ [](/\ \A i \in 1..Len(store) :
                store[i].title # None /\ IsWeekday(store[i].title[1])
          /\ (last.op = "POST /tasks" /\ NotAWeekday(last.req)) => last.status = 400
          /\ (last.op = "PUT /tasks/:task_id" /\ NotAWeekday(last.req))
                => last.status = (IF PutRequestOk(last.req) /\ ~last.found THEN 404 ELSE 400))
    /\ [][store' # store
            => ~(last'.op \in {"POST /tasks", "PUT /tasks/:task_id"} /\ NotAWeekday(last'.req))]_vars

C10_Witness ==
    /\ last.op = "PUT /tasks/:task_id"
    /\ NotAWeekday(last.req)
    /\ last.found
    /\ last.status = 400
====
